---- MODULE Spec2Model ----
(***************************************************************************)
(* A model of three GoJS extensions:                                       *)
(*   DimensioningLink (extensions/DimensioningLink.js),                    *)
(*   SpiralLayout     (extensions/SpiralLayout.js),                        *)
(*   ArrangingLayout  (extensionsJSM/ArrangingLayout.ts).                  *)
(*                                                                         *)
(* JavaScript values are records [t, v]: t is the kind of value and v its  *)
(* payload.  Lengths and coordinates are fixed-point numbers with Scale    *)
(* units per 1.0, so that the 0.01 offsets of computePoints are exact;     *)
(* angles are plain degrees.                                               *)
(***************************************************************************)
EXTENDS Integers, Sequences, FiniteSets, TLC

\* ------------------------------------------------------------------ bounds
\* measured points have coordinates k * 10.0, k in 0..MaxCoord
MaxCoord == 1
\* lengths offered to the setters are k * 10.0, k in -1..MaxLen
MaxLen == 2
\* a layout network has at most MaxVerts vertexes and MaxEdges edges
MaxVerts == 3
MaxEdges == 3

\* fixed-point units per 1.0 (0.01 is one unit)
Scale == 100

\* ------------------------------------------------------- JavaScript values
Num(n) == [t |-> "number", v |-> n]
NaN == [t |-> "nan", v |-> 0]
\* the string "abc"
Str == [t |-> "string", v |-> 0]
\* a numeric string such as "90"
NumStr(n) == [t |-> "numstring", v |-> n]
Undefined == [t |-> "undefined", v |-> 0]
Null == [t |-> "null", v |-> 0]
\* an object that is not an instance of any library class
PlainObject == [t |-> "object", v |-> 0]

\* typeof val === 'number'
TypeofNumber(val) == val.t \in {"number", "nan"}

\* the ToNumber conversion applied by isNaN() and by the relational operators
ToNumber(val) ==
  CASE val.t = "number" -> val
    [] val.t = "numstring" -> Num(val.v)
    [] val.t = "null" -> Num(0)
    [] OTHER -> NaN

\* the global isNaN(val)
IsNaN(val) == ToNumber(val).t = "nan"

\* a === b
StrictEq(a, b) == a.t = b.t /\ a.v = b.v /\ a.t # "nan"

\* a < b
LessThan(a, b) ==
  LET x == ToNumber(a)
      y == ToNumber(b)
  IN x.t = "number" /\ y.t = "number" /\ x.v < y.v

\* a <= b
LessEq(a, b) ==
  LET x == ToNumber(a)
      y == ToNumber(b)
  IN x.t = "number" /\ y.t = "number" /\ x.v <= y.v

\* !!val
Truthy(val) ==
  CASE val.t = "number" -> val.v # 0
    [] val.t \in {"nan", "undefined", "null"} -> FALSE
    [] val.t = "boolean" -> val.v = 1
    [] OTHER -> TRUE

\* a + b, a - b, Math.min, Math.max on numbers (NaN is absorbing)
JAdd(a, b) == IF a.t = "nan" \/ b.t = "nan" THEN NaN ELSE Num(a.v + b.v)
JSub(a, b) == IF a.t = "nan" \/ b.t = "nan" THEN NaN ELSE Num(a.v - b.v)
JMin(a, b) == IF a.t = "nan" \/ b.t = "nan" THEN NaN
              ELSE IF a.v <= b.v THEN a ELSE b
JMax(a, b) == IF a.t = "nan" \/ b.t = "nan" THEN NaN
              ELSE IF a.v >= b.v THEN a ELSE b

Point(x, y) == [x |-> x, y |-> y]

VARIABLES
  dl,         \* the DimensioningLink: _direction, _extension, _inset, _gap
  dl_last,    \* the last call made on it and what the call did (for
              \* computePoints, the points it added to the route)
  sl,         \* the SpiralLayout: _radius, _spacing, _clockwise
  sl_last,    \* the last call made on it and what the call did
  sl_run,     \* the SpiralLayout's network and the position of its doLayout:
              \* pc, network, root, vert, the vertexes placed so far, the
              \* parity of the turns its loop has taken, and whether
              \* updateParts was called
  al,         \* the ArrangingLayout: its private fields and its diagram
  al_last     \* the last call made on it and what the call did

dlvars == <<dl, dl_last>>
slvars == <<sl, sl_last, sl_run>>
alvars == <<al, al_last>>
vars == <<dl, dl_last, sl, sl_last, sl_run, al, al_last>>

NoCall == [op |-> "new", val |-> Undefined, old |-> Undefined, threw |-> FALSE,
           raised |-> FALSE, invalidated |-> FALSE]

\* ======================================================== DimensioningLink

DLInit ==
  /\ dl = [_direction |-> Num(0), _extension |-> Num(30 * Scale),
           _inset |-> Num(10 * Scale), _gap |-> Num(10 * Scale)]
  /\ dl_last = NoCall

\* what a setter call did: the value passed, the value read into old, and
\* whether it threw, raised a changed event, invalidated the route
DLCall(op, val, old, ok) ==
  [op |-> op, val |-> val, old |-> old, threw |-> ~ok,
   raised |-> ok, invalidated |-> ok]

\* a call that returned without doing anything
DLNoop(op, val, old) ==
  [op |-> op, val |-> val, old |-> old, threw |-> FALSE,
   raised |-> FALSE, invalidated |-> FALSE]

\* the values a caller may assign to direction
DirectionValues ==
  {Num(0), Num(90), Num(180), Num(270), Num(45), NaN, Str, NumStr(90), Null}

\* the values a caller may assign to extension, inset and gap
LengthValues ==
  {Num(k * 10 * Scale) : k \in -1 .. MaxLen} \cup {NaN, Str}

DL_set_direction(val) ==
  LET old == dl._direction IN
  /\ IF \/ IsNaN(val)
        \/ StrictEq(val, Num(0)) \/ StrictEq(val, Num(90))
        \/ StrictEq(val, Num(180)) \/ StrictEq(val, Num(270))
     THEN /\ dl' = [dl EXCEPT !._direction = val]
          /\ dl_last' = DLCall("direction", val, old, TRUE)
     ELSE /\ dl' = dl
          /\ dl_last' = DLCall("direction", val, old, FALSE)

DL_set_extension(val) ==
  LET old == dl._extension IN
  /\ IF ~StrictEq(old, val)
     THEN IF ~TypeofNumber(val)
          THEN /\ dl' = dl
               /\ dl_last' = DLCall("extension", val, old, FALSE)
          ELSE /\ dl' = [dl EXCEPT !._extension = val]
               /\ dl_last' = DLCall("extension", val, old, TRUE)
     ELSE /\ dl' = dl
          /\ dl_last' = DLNoop("extension", val, old)

DL_set_inset(val) ==
  LET old == dl._inset IN
  /\ IF ~StrictEq(old, val)
     THEN IF ~TypeofNumber(val) \/ LessThan(val, Num(0))
          THEN /\ dl' = dl
               /\ dl_last' = DLCall("inset", val, old, FALSE)
          ELSE /\ dl' = [dl EXCEPT !._inset = val]
               /\ dl_last' = DLCall("inset", val, old, TRUE)
     ELSE /\ dl' = dl
          /\ dl_last' = DLNoop("inset", val, old)

DL_set_gap(val) ==
  LET old == dl._gap IN
  /\ IF ~StrictEq(old, val)
     THEN IF ~TypeofNumber(val) \/ LessThan(val, Num(0))
          THEN /\ dl' = dl
               /\ dl_last' = DLCall("gap", val, old, FALSE)
          ELSE /\ dl' = [dl EXCEPT !._gap = val]
               /\ dl_last' = DLCall("gap", val, old, TRUE)
     ELSE /\ dl' = dl
          /\ dl_last' = DLNoop("gap", val, old)

\* the integer square root (Newton's iteration from above), for the length
\* of the measured segment
RECURSIVE ISqrtFrom(_, _)
ISqrtFrom(n, r) ==
  LET next == (r + (n \div r)) \div 2
  IN IF next >= r THEN r ELSE ISqrtFrom(n, next)

ISqrt(n) == IF n = 0 THEN 0 ELSE ISqrtFrom(n, n)

\* new go.Point(len, 0) rotated by frompoint.directionPoint(topoint) + 90:
\* the vector of length len perpendicular to the measured segment, exact when
\* the segment is horizontal or vertical and rounded to a unit otherwise
Rotated(len, frompoint, topoint) ==
  LET dx == topoint.x - frompoint.x
      dy == topoint.y - frompoint.y
      d == ISqrt(dx * dx + dy * dy)
  IN IF len.t = "nan" THEN Point(NaN, NaN)
     ELSE IF d = 0 THEN Point(Num(0), len)
     ELSE Point(Num((0 - len.v * dy) \div d), Num((len.v * dx) \div d))

\* the point-to-point route of computePoints (direction is NaN)
PointToPointRoute(d, frompoint, topoint) ==
  LET p == Rotated(d._extension, frompoint, topoint)
      q == Rotated(JSub(d._extension, d._inset), frompoint, topoint)
      g == Rotated(d._gap, frompoint, topoint)
      fx == Num(frompoint.x)
      fy == Num(frompoint.y)
      tx == Num(topoint.x)
      ty == Num(topoint.y)
  IN << Point(JAdd(fx, g.x), JAdd(fy, g.y)),
        Point(JAdd(fx, p.x), JAdd(fy, p.y)),
        Point(JAdd(fx, q.x), JAdd(fy, q.y)),
        Point(JAdd(tx, q.x), JAdd(ty, q.y)),
        Point(JAdd(tx, p.x), JAdd(ty, p.y)),
        Point(JAdd(tx, g.x), JAdd(ty, g.y)) >>

\* HorizontalRoute with Math.min and Math.max exchanged
HorizontalRouteMinMaxSwapped(d, ang, frompoint, topoint) ==
  LET fx == Num(frompoint.x)
      fy == Num(frompoint.y)
      tx == Num(topoint.x)
      ty == Num(topoint.y)
      up == StrictEq(ang, Num(0))
      r == IF up THEN JSub(JMax(fy, ty), d._extension)
                 ELSE JAdd(JMin(fy, ty), d._extension)
      s == IF up THEN JAdd(r, d._inset) ELSE JSub(r, d._inset)
      t0 == IF up THEN JSub(fy, d._gap) ELSE JAdd(fy, d._gap)
      t1 == IF up THEN JSub(ty, d._gap) ELSE JAdd(ty, d._gap)
  IN << Point(fx, t0), Point(JAdd(fx, Num(1)), r), Point(fx, s),
        Point(tx, s), Point(JSub(tx, Num(1)), r), Point(tx, t1) >>

\* the route of computePoints for direction 0 (above) and 180 (below)
HorizontalRoute(d, ang, frompoint, topoint) ==
  LET fx == Num(frompoint.x)
      fy == Num(frompoint.y)
      tx == Num(topoint.x)
      ty == Num(topoint.y)
      up == StrictEq(ang, Num(0))
      r == IF up THEN JSub(JMin(fy, ty), d._extension)
                 ELSE JAdd(JMax(fy, ty), d._extension)
      s == IF up THEN JAdd(r, d._inset) ELSE JSub(r, d._inset)
      t0 == IF up THEN JSub(fy, d._gap) ELSE JAdd(fy, d._gap)
      t1 == IF up THEN JSub(ty, d._gap) ELSE JAdd(ty, d._gap)
  IN << Point(fx, t0), Point(JAdd(fx, Num(1)), r), Point(fx, s),
        Point(tx, s), Point(JSub(tx, Num(1)), r), Point(tx, t1) >>

\* the route of computePoints for direction 90 (right) and 270 (left)
VerticalRoute(d, ang, frompoint, topoint) ==
  LET fx == Num(frompoint.x)
      fy == Num(frompoint.y)
      tx == Num(topoint.x)
      ty == Num(topoint.y)
      right == StrictEq(ang, Num(90))
      r == IF right THEN JAdd(JMax(fx, tx), d._extension)
                    ELSE JSub(JMin(fx, tx), d._extension)
      s == IF right THEN JSub(r, d._inset) ELSE JAdd(r, d._inset)
      t0 == IF right THEN JAdd(fx, d._gap) ELSE JSub(fx, d._gap)
      t1 == IF right THEN JAdd(tx, d._gap) ELSE JSub(tx, d._gap)
  IN << Point(t0, fy), Point(r, JAdd(fy, Num(1))), Point(s, fy),
        Point(s, ty), Point(r, JSub(ty, Num(1))), Point(t1, ty) >>

\* the points computePoints adds after clearPoints()
Route(d, frompoint, topoint) ==
  LET ang == d._direction IN
  IF IsNaN(ang) THEN PointToPointRoute(d, frompoint, topoint)
  ELSE IF StrictEq(ang, Num(0)) \/ StrictEq(ang, Num(180))
       THEN HorizontalRoute(d, ang, frompoint, topoint)
  ELSE IF StrictEq(ang, Num(90)) \/ StrictEq(ang, Num(270))
       THEN VerticalRoute(d, ang, frompoint, topoint)
  ELSE << >>

\* the coordinates of the measured points
Coords == {k * 10 * Scale : k \in 0 .. MaxCoord}
MeasuredPoints == [x : Coords, y : Coords]

\* computePoints(): connected is false when a node or port is missing or a
\* link point is not real, and the call then returns false before it touches
\* the route; otherwise the route is cleared and points holds the points added
computePoints(connected, frompoint, topoint) ==
  /\ dl_last' = [op |-> "computePoints", val |-> Undefined,
                 old |-> Undefined, threw |-> FALSE, raised |-> FALSE,
                 invalidated |-> FALSE, result |-> connected,
                 frompoint |-> frompoint, topoint |-> topoint,
                 points |-> IF connected THEN Route(dl, frompoint, topoint)
                            ELSE << >>]
  /\ UNCHANGED dl

\* the measured points of a link that is not connected are never computed
NoPoint == [x |-> 0, y |-> 0]

DLSetDirection == (\E val \in DirectionValues : DL_set_direction(val)) /\ UNCHANGED <<slvars, alvars>>
DLSetExtension == (\E val \in LengthValues : DL_set_extension(val)) /\ UNCHANGED <<slvars, alvars>>
DLSetInset == (\E val \in LengthValues : DL_set_inset(val)) /\ UNCHANGED <<slvars, alvars>>
DLSetGap == (\E val \in LengthValues : DL_set_gap(val)) /\ UNCHANGED <<slvars, alvars>>
\* computePoints leaves the fields of the link alone: one call straight after
\* another starts from the same fields, so it is taken after a setter call
DLComputePoints ==
  /\ dl_last.op # "computePoints"
  /\ \/ \E frompoint \in MeasuredPoints : \E topoint \in MeasuredPoints :
          computePoints(TRUE, frompoint, topoint)
     \/ computePoints(FALSE, NoPoint, NoPoint)
  /\ UNCHANGED <<slvars, alvars>>

DLNext ==
  \/ DLSetDirection
  \/ DLSetExtension
  \/ DLSetInset
  \/ DLSetGap
  \/ DLComputePoints

\* ============================================================ SpiralLayout

\* a LayoutNetwork: vertexes 1 .. n in iteration order, and its edges in the
\* order they were added, each <<fromVertex, toVertex>>
Network(n, edges) == [null |-> FALSE, n |-> n, edges |-> edges]

\* this.network === null
NullNetwork == [null |-> TRUE, n |-> 0, edges |-> <<>>]

\* no doLayout is running
Idle == sl_run.pc = "idle"

SLInit ==
  /\ sl = [_radius |-> NaN, _spacing |-> Num(10), _clockwise |-> TRUE]
  /\ sl_last = NoCall
  /\ sl_run = [pc |-> "idle", network |-> NullNetwork, root |-> 0, vert |-> 0,
               placed |-> {}, turn |-> 0, updated |-> FALSE]

SLCall(op, val, old, ok) ==
  [op |-> op, val |-> val, old |-> old, threw |-> ~ok,
   raised |-> FALSE, invalidated |-> ok]

SLNoop(op, val, old) ==
  [op |-> op, val |-> val, old |-> old, threw |-> FALSE,
   raised |-> FALSE, invalidated |-> FALSE]

\* the values a caller may assign to radius and spacing
SpiralValues ==
  {Num(0), Num(10), Num(50), Num(100), Num(-10), NaN, Str, Undefined}

\* the values a caller may assign to clockwise
ClockwiseValues ==
  {[t |-> "boolean", v |-> 1], [t |-> "boolean", v |-> 0],
   Num(0), Num(10), Undefined, Str}

SL_set_radius(val) ==
  LET old == sl._radius IN
  IF ~StrictEq(old, val)
  THEN IF ~TypeofNumber(val)
       THEN /\ sl' = sl
            /\ sl_last' = SLCall("radius", val, old, FALSE)
       ELSE /\ sl' = [sl EXCEPT !._radius = val]
            /\ sl_last' = SLCall("radius", val, old, TRUE)
  ELSE /\ sl' = sl
       /\ sl_last' = SLNoop("radius", val, old)

SL_set_spacing(val) ==
  LET old == sl._spacing IN
  IF ~StrictEq(old, val)
  THEN IF ~TypeofNumber(val)
       THEN /\ sl' = sl
            /\ sl_last' = SLCall("spacing", val, old, FALSE)
       ELSE /\ sl' = [sl EXCEPT !._spacing = val]
            /\ sl_last' = SLCall("spacing", val, old, TRUE)
  ELSE /\ sl' = sl
       /\ sl_last' = SLNoop("spacing", val, old)

SL_set_clockwise(val) ==
  LET b == Truthy(val) IN
  IF sl._clockwise # b
  THEN /\ sl' = [sl EXCEPT !._clockwise = b]
       /\ sl_last' = SLCall("clockwise", val, Undefined, TRUE)
  ELSE /\ sl' = sl
       /\ sl_last' = SLNoop("clockwise", val, Undefined)

\* a setter runs to completion between two doLayouts
SLSetRadius == Idle /\ (\E val \in SpiralValues : SL_set_radius(val)) /\ UNCHANGED <<sl_run, dlvars, alvars>>
SLSetSpacing == Idle /\ (\E val \in SpiralValues : SL_set_spacing(val)) /\ UNCHANGED <<sl_run, dlvars, alvars>>
SLSetClockwise == Idle /\ (\E val \in ClockwiseValues : SL_set_clockwise(val)) /\ UNCHANGED <<sl_run, dlvars, alvars>>

SLNext ==
  \/ SLSetRadius
  \/ SLSetSpacing
  \/ SLSetClockwise

\* ------------------------------------------------- SpiralLayout.doLayout

\* the networks of n vertexes and k edges that makeNetwork(coll) may return:
\* any edges between the vertexes, reflexive and duplicate edges included
Networks(n, k) ==
  {Network(n, edges) : edges \in [1 .. k -> (1 .. n) \X (1 .. n)]}

\* v.sourceEdges.count
sourceEdgesCount(net, v) ==
  Cardinality({i \in 1 .. Len(net.edges) : net.edges[i][2] = v})

\* v.destinationEdges.first(), as an index into the edges; 0 is null
destinationEdgesFirst(net, v) ==
  LET out == {i \in 1 .. Len(net.edges) : net.edges[i][1] = v}
  IN IF out = {} THEN 0 ELSE CHOOSE i \in out : \A j \in out : i <= j

\* edge !== null ? edge.toVertex : null
toVertexOf(net, edge) == IF edge = 0 THEN 0 ELSE net.edges[edge][2]

\* the search for a root vertex, from vertex v on; 0 is null
RECURSIVE findRoot(_, _, _)
findRoot(net, v, root) ==
  IF v > net.n THEN root
  ELSE LET first == IF root = 0 THEN v ELSE root
       IN IF sourceEdgesCount(net, v) = 0 THEN v
          ELSE findRoot(net, v + 1, first)

\* doLayout up to its while loop: make the network, find the root, place it
\* at the origin and take its first destination edge
SL_doLayout_begin(net) ==
  LET root == findRoot(net, 1, 0)
      edge == destinationEdgesFirst(net, root)
  IN IF root = 0
     THEN sl_run' = [pc |-> "idle", network |-> NullNetwork, root |-> 0,
                     vert |-> 0, placed |-> {}, turn |-> 0,
                     updated |-> FALSE]
     ELSE sl_run' = [pc |-> "walk", network |-> net, root |-> root,
                     vert |-> toVertexOf(net, edge), placed |-> {root},
                     turn |-> 0, updated |-> FALSE]

\* one turn of the while loop: place vert and go on to the vertex at the
\* end of its first destination edge
SL_doLayout_walk ==
  LET net == sl_run.network
      nextedge == destinationEdgesFirst(net, sl_run.vert)
      nextvert == toVertexOf(net, nextedge)
  IN sl_run' = [sl_run EXCEPT !.placed = @ \cup {sl_run.vert},
                              !.vert = nextvert,
                              !.turn = 1 - @]

\* doLayout after its while loop: updateParts and forget the network
SL_doLayout_end ==
  sl_run' = [sl_run EXCEPT !.pc = "idle", !.network = NullNetwork,
                           !.updated = TRUE]

SLDoLayout ==
  /\ Idle
  /\ \E n \in 0 .. MaxVerts, k \in 0 .. MaxEdges :
       \E net \in Networks(n, k) : SL_doLayout_begin(net)
  /\ UNCHANGED <<sl, sl_last, dlvars, alvars>>

SLDoLayoutWalk ==
  /\ sl_run.pc = "walk"
  /\ sl_run.vert # 0
  /\ SL_doLayout_walk
  /\ UNCHANGED <<sl, sl_last, dlvars, alvars>>

SLDoLayoutEnd ==
  /\ sl_run.pc = "walk"
  /\ sl_run.vert = 0
  /\ SL_doLayout_end
  /\ UNCHANGED <<sl, sl_last, dlvars, alvars>>

SLRunNext ==
  \/ SLDoLayout
  \/ SLDoLayoutWalk
  \/ SLDoLayoutEnd
  \/ SLSetClockwise

\* ========================================================= ArrangingLayout

\* go.Layout instances: 1, 2, 3 are the GridLayouts the constructor makes
Layout(i) == [t |-> "layout", v |-> i]
\* a predicate function: Fn(TRUE) is part => true, Fn(FALSE) is part => false
Fn(b) == [t |-> "function", v |-> b]
\* the middle-side Spots Spot.Top, Spot.Right, Spot.Bottom, Spot.Left, and
\* Spot.Center
Spot(name) == [t |-> "spot", v |-> name]
\* the side Spots: Spot.TopSide is Sides({"Top"}), Spot.TopBottomSides is
\* Sides({"Top", "Bottom"}), ..., Spot.AllSides
Sides(set) == [t |-> "sides", v |-> set]
Size(w, h) == [t |-> "size", v |-> <<w, h>>]
TheDiagram == [t |-> "diagram", v |-> 0]
Rect(x, y, w, h) == [x |-> x, y |-> y, width |-> w, height |-> h]

SideNames == {"Top", "Right", "Bottom", "Left"}

\* val instanceof go.Layout, go.Spot, go.Size
IsLayout(val) == val.t = "layout"
IsSpot(val) == val.t \in {"spot", "sides"}
IsSize(val) == val.t = "size"

\* Spot.equals and Size.equals: false for a value of another class
ObjEquals(a, b) == a.t = b.t /\ a.v = b.v

\* Spot.isSide()
isSide(spot) == spot.t = "sides"

\* Spot.includesSide(side), side one of the four single-side Spots
includesSide(spot, name) == spot.t = "sides" /\ name \in spot.v

ALInit ==
  /\ al = [_filter |-> Null,
           _primaryLayout |-> Layout(1),
           _arrangingLayout |-> Layout(2),
           _sideLayout |-> Layout(3),
           _side |-> Sides({"Bottom"}),
           _spacing |-> Size(20, 20),
           diagram |-> Null]
  /\ al_last = NoCall

\* what a setter call did: the value passed, the previous value, whether it
\* threw and whether it called invalidateLayout
ALCall(op, val, old, ok) ==
  [op |-> op, val |-> val, old |-> old, threw |-> ~ok,
   raised |-> FALSE, invalidated |-> ok]

ALNoop(op, val, old) ==
  [op |-> op, val |-> val, old |-> old, threw |-> FALSE,
   raised |-> FALSE, invalidated |-> FALSE]

AL_set_filter(val) ==
  LET old == al._filter IN
  IF ~StrictEq(old, val)
  THEN IF Truthy(val) /\ val.t # "function"
       THEN /\ al' = al
            /\ al_last' = ALCall("filter", val, old, FALSE)
       ELSE /\ al' = [al EXCEPT !._filter = val]
            /\ al_last' = ALCall("filter", val, old, TRUE)
  ELSE /\ al' = al
       /\ al_last' = ALNoop("filter", val, old)

AL_set_side(val) ==
  LET old == al._side IN
  IF ~ObjEquals(old, val)
  THEN IF \/ ~IsSpot(val)
          \/ ~(\/ isSide(val)
               \/ ObjEquals(val, Spot("Top"))
               \/ ObjEquals(val, Spot("Right"))
               \/ ObjEquals(val, Spot("Bottom"))
               \/ ObjEquals(val, Spot("Left")))
       THEN /\ al' = al
            /\ al_last' = ALCall("side", val, old, FALSE)
       ELSE /\ al' = [al EXCEPT !._side = val]
            /\ al_last' = ALCall("side", val, old, TRUE)
  ELSE /\ al' = al
       /\ al_last' = ALNoop("side", val, old)

AL_set_spacing(val) ==
  LET old == al._spacing IN
  IF ~ObjEquals(old, val)
  THEN IF ~IsSize(val)
       THEN /\ al' = al
            /\ al_last' = ALCall("spacing", val, old, FALSE)
       ELSE /\ al' = [al EXCEPT !._spacing = val]
            /\ al_last' = ALCall("spacing", val, old, TRUE)
  ELSE /\ al' = al
       /\ al_last' = ALNoop("spacing", val, old)

\* the primaryLayout setter without its instanceof check
AL_set_primaryLayoutUnchecked(val) ==
  LET old == al._primaryLayout IN
  IF ~StrictEq(old, val)
  THEN /\ al' = [al EXCEPT !._primaryLayout = val]
       /\ al_last' = ALCall("primaryLayout", val, old, TRUE)
  ELSE /\ al' = al
       /\ al_last' = ALNoop("primaryLayout", val, old)

AL_set_primaryLayout(val) ==
  LET old == al._primaryLayout IN
  IF ~StrictEq(old, val)
  THEN IF ~IsLayout(val)
       THEN /\ al' = al
            /\ al_last' = ALCall("primaryLayout", val, old, FALSE)
       ELSE /\ al' = [al EXCEPT !._primaryLayout = val]
            /\ al_last' = ALCall("primaryLayout", val, old, TRUE)
  ELSE /\ al' = al
       /\ al_last' = ALNoop("primaryLayout", val, old)

AL_set_arrangingLayout(val) ==
  LET old == al._arrangingLayout IN
  IF ~StrictEq(old, val)
  THEN IF Truthy(val) /\ ~IsLayout(val)
       THEN /\ al' = al
            /\ al_last' = ALCall("arrangingLayout", val, old, FALSE)
       ELSE /\ al' = [al EXCEPT !._arrangingLayout = val]
            /\ al_last' = ALCall("arrangingLayout", val, old, TRUE)
  ELSE /\ al' = al
       /\ al_last' = ALNoop("arrangingLayout", val, old)

AL_set_sideLayout(val) ==
  LET old == al._sideLayout IN
  IF ~StrictEq(old, val)
  THEN IF ~IsLayout(val)
       THEN /\ al' = al
            /\ al_last' = ALCall("sideLayout", val, old, FALSE)
       ELSE /\ al' = [al EXCEPT !._sideLayout = val]
            /\ al_last' = ALCall("sideLayout", val, old, TRUE)
  ELSE /\ al' = al
       /\ al_last' = ALNoop("sideLayout", val, old)

\* Layout.diagram is set by the library when the layout becomes the layout of
\* a Diagram and reset when it is removed
AL_set_diagram(val) ==
  /\ al' = [al EXCEPT !.diagram = val]
  /\ al_last' = ALNoop("diagram", val, al.diagram)

\* the values a caller may assign
FilterValues == {Null, Fn(TRUE), Fn(FALSE), PlainObject, Num(0)}
LayoutValues == {Layout(4), Null, Undefined, PlainObject}
SideValues ==
  {Spot(n) : n \in SideNames \cup {"Center"}}
    \cup {Sides(set) : set \in (SUBSET SideNames) \ {{}}}
    \cup {Null}
SpacingValues == {Size(20, 20), Size(0, 0), Size(10, 30), Size(-10, -10), Null}

\* ------------------------------------------------ bounds of the diagrams
\* the diagram has the Nodes 1..MaxNodes and at most MaxLinks Links
MaxNodes == 5
MaxLinks == 2
\* the bounds of the laid out parts have sizes k * 10, k in 0..MaxSize
MaxSize == 2

\* the Parts of a diagram: Nodes, Links from one Node to another (0 stands
\* for a missing fromNode or toNode) and one Part that is neither
Node(i) == [kind |-> "Node", id |-> i, from |-> 0, to |-> 0]
PlainPart == [kind |-> "Part", id |-> 1, from |-> 0, to |-> 0]
Link(j, f, t) == [kind |-> "Link", id |-> j, from |-> f, to |-> t]

\* the ends of a Link; ArrangingLayout never looks at the direction of a Link
\* that has both ends, so those are listed with from <= to, and a Link that
\* lacks an end has its other end, if any, at Node 1
LinkEnds ==
  {e \in (0 .. MaxNodes) \X (0 .. MaxNodes) :
     \/ e[1] # 0 /\ e[2] # 0 /\ e[1] <= e[2]
     \/ e \in {<<0, 0>>, <<0, 1>>, <<1, 0>>}}

EndsCode(e) == e[1] * (MaxNodes + 1) + e[2]

\* the Links of a diagram, in one order
LinkLists ==
  {ls \in UNION {[1 .. m -> LinkEnds] : m \in 0 .. MaxLinks} :
     \A i \in 1 .. (Len(ls) - 1) : EndsCode(ls[i]) <= EndsCode(ls[i + 1])}

\* the collections given to doLayout and splitParts: all Links of the diagram,
\* all its Nodes or all but the last, with or without the plain Part
Graphs ==
  [nodes : {1 .. MaxNodes, 1 .. (MaxNodes - 1)}, hasPart : BOOLEAN,
   links : LinkLists]

EmptyGraph == [nodes |-> {}, hasPart |-> FALSE, links |-> << >>]

\* collectParts(coll)
collectParts(g) ==
  {Node(i) : i \in g.nodes}
    \cup (IF g.hasPart THEN {PlainPart} ELSE {})
    \cup {Link(j, g.links[j][1], g.links[j][2]) : j \in 1 .. Len(g.links)}

\* Node.linksConnected of Node i
linksConnected(g, i) ==
  {j \in 1 .. Len(g.links) : g.links[j][1] = i \/ g.links[j][2] = i}

\* the first pass of splitParts: whether the non-Link p goes to maincoll
IsMain(g, pred, p) ==
  IF Truthy(pred) THEN pred.v
  ELSE IF p.kind = "Node" THEN Cardinality(linksConnected(g, p.id)) > 0
  ELSE p.kind = "Link"

\* splitParts(coll, maincoll, sidecoll): the two collections it fills
splitParts(g, pred) ==
  LET coll == collectParts(g)
      main1 == {p \in coll : p.kind # "Link" /\ IsMain(g, pred, p)}
      side1 == {p \in coll : p.kind # "Link" /\ ~IsMain(g, pred, p)}
      connected == {p \in coll : p.kind = "Link" /\ p.from # 0 /\ p.to # 0}
      mainlinks == {p \in connected : Node(p.from) \in main1 /\ Node(p.to) \in main1}
      sidelinks == {p \in connected \ mainlinks :
                      Node(p.from) \in side1 /\ Node(p.to) \in side1}
  IN [maincoll |-> main1 \cup mainlinks, sidecoll |-> side1 \cup sidelinks]

\* makeNetwork(maincoll): a vertex for each Node and an edge for each Link
\* between two of them
makeNetwork(maincoll) ==
  LET vs == {p.id : p \in {q \in maincoll : q.kind = "Node"}}
  IN [vertexes |-> vs,
      edges |-> {p \in maincoll : p.kind = "Link" /\ p.from \in vs /\ p.to \in vs}]

\* the vertexes that the edges connect with the vertexes of seen
RECURSIVE Reachable(_, _)
Reachable(seen, edges) ==
  LET more == {e.to : e \in {x \in edges : x.from \in seen}}
                \cup {e.from : e \in {x \in edges : x.to \in seen}}
  IN IF more \subseteq seen THEN seen ELSE Reachable(seen \cup more, edges)

Min(set) == CHOOSE x \in set : \A y \in set : x <= y

\* the subnetworks in the order of splitIntoSubNetworks: decreasing vertex count
RECURSIVE SortNets(_)
SortNets(nets) ==
  IF nets = {} THEN << >>
  ELSE LET first == CHOOSE n \in nets : \A m \in nets :
                      \/ Cardinality(n.vertexes) > Cardinality(m.vertexes)
                      \/ /\ Cardinality(n.vertexes) = Cardinality(m.vertexes)
                         /\ Min(n.vertexes) <= Min(m.vertexes)
       IN <<first>> \o SortNets(nets \ {first})

\* LayoutNetwork.splitIntoSubNetworks(): edges from a vertex to itself are
\* deleted, each set of vertexes connected by edges becomes a subnetwork, and
\* the vertexes without edges stay in the network
splitIntoSubNetworks(net) ==
  LET edges == {e \in net.edges : e.from # e.to}
      linked == {v \in net.vertexes : \E e \in edges : e.from = v \/ e.to = v}
      comps == {Reachable({v}, edges) : v \in linked}
      nets == {[vertexes |-> c,
                edges |-> {e \in edges : e.from \in c}] : c \in comps}
  IN [subnets |-> SortNets(nets),
      mainnet |-> [vertexes |-> net.vertexes \ linked, edges |-> {}]]

\* LayoutNetwork.findAllParts()
findAllParts(net) == {Node(v) : v \in net.vertexes} \cup net.edges

\* a sequence of the elements of a set of numbers, in increasing order
RECURSIVE SeqOf(_)
SeqOf(set) ==
  IF set = {} THEN << >> ELSE <<Min(set)>> \o SeqOf(set \ {Min(set)})

\* what Diagram.computePartsBounds returned: a Rect, or one that is not real
Bounds(real, rect) == [real |-> real, rect |-> rect]
NotReal == Bounds(FALSE, Rect(0, 0, 0, 0))

\* if (!bounds.isReal()) bounds = new go.Rect(0, 0, 0, 0)
RealOrZero(b) == IF b.real THEN b.rect ELSE Rect(0, 0, 0, 0)

\* let pos = null
NoPos == [x |-> 0, y |-> 0, none |-> TRUE]

\* moveSideCollection with the position of Spot.Top lacking sidebounds.height
moveSideCollectionPosTopSlip(side, spacing, mainbounds, sidebounds) ==
  LET sw == spacing.v[1]
      sh == spacing.v[2]
      centerX == mainbounds.x + (mainbounds.width \div 2)
      centerY == mainbounds.y + (mainbounds.height \div 2)
  IN IF ObjEquals(side, Spot("Bottom"))
     THEN Point(centerX - (sidebounds.width \div 2),
                mainbounds.y + mainbounds.height + sh)
     ELSE IF ObjEquals(side, Spot("Right"))
     THEN Point(mainbounds.x + mainbounds.width + sw,
                centerY - (sidebounds.height \div 2))
     ELSE IF ObjEquals(side, Spot("Top"))
     THEN Point(centerX - (sidebounds.width \div 2),
                mainbounds.y - sh)
     ELSE IF ObjEquals(side, Spot("Left"))
     THEN Point(mainbounds.x - sidebounds.width - sw,
                centerY - (sidebounds.height \div 2))
     ELSE IF includesSide(side, "Bottom")
     THEN Point(mainbounds.x, mainbounds.y + mainbounds.height + sh)
     ELSE IF includesSide(side, "Right")
     THEN Point(mainbounds.x + mainbounds.width + sw, mainbounds.y)
     ELSE IF includesSide(side, "Top")
     THEN Point(mainbounds.x, mainbounds.y - sh)
     ELSE IF includesSide(side, "Left")
     THEN Point(mainbounds.x - sidebounds.width - sw, mainbounds.y)
     ELSE NoPos

\* the position pos that moveSideCollection computes, Null when it stays null
moveSideCollectionPos(side, spacing, mainbounds, sidebounds) ==
  LET sw == spacing.v[1]
      sh == spacing.v[2]
      centerX == mainbounds.x + (mainbounds.width \div 2)
      centerY == mainbounds.y + (mainbounds.height \div 2)
  IN IF ObjEquals(side, Spot("Bottom"))
     THEN Point(centerX - (sidebounds.width \div 2),
                mainbounds.y + mainbounds.height + sh)
     ELSE IF ObjEquals(side, Spot("Right"))
     THEN Point(mainbounds.x + mainbounds.width + sw,
                centerY - (sidebounds.height \div 2))
     ELSE IF ObjEquals(side, Spot("Top"))
     THEN Point(centerX - (sidebounds.width \div 2),
                mainbounds.y - sidebounds.height - sh)
     ELSE IF ObjEquals(side, Spot("Left"))
     THEN Point(mainbounds.x - sidebounds.width - sw,
                centerY - (sidebounds.height \div 2))
     ELSE IF includesSide(side, "Bottom")
     THEN Point(mainbounds.x, mainbounds.y + mainbounds.height + sh)
     ELSE IF includesSide(side, "Right")
     THEN Point(mainbounds.x + mainbounds.width + sw, mainbounds.y)
     ELSE IF includesSide(side, "Top")
     THEN Point(mainbounds.x, mainbounds.y - sidebounds.height - sh)
     ELSE IF includesSide(side, "Left")
     THEN Point(mainbounds.x - sidebounds.width - sw, mainbounds.y)
     ELSE NoPos

\* Diagram.moveParts(coll, offset) as seen on the bounds of coll
moveParts(bounds, offset) ==
  Rect(bounds.x + offset.x, bounds.y + offset.y, bounds.width, bounds.height)

\* moveSideCollection(sidecoll, mainbounds, sidebounds): whether it called
\* moveParts, and the bounds of the side collection afterwards
moveSideCollection(mainbounds, sidebounds) ==
  LET pos == moveSideCollectionPos(al._side, al._spacing, mainbounds, sidebounds)
  IN IF al.diagram = Null \/ "none" \in DOMAIN pos
     THEN [moved |-> FALSE, sidebounds |-> sidebounds]
     ELSE [moved |-> TRUE,
           sidebounds |-> moveParts(sidebounds,
                            Point(pos.x - sidebounds.x, pos.y - sidebounds.y))]

\* a call of doLayout on one of the three layouts
LayoutCall(name, layout, parts, groups) ==
  [name |-> name, layout |-> layout, parts |-> parts, groups |-> groups]

\* what a call of doLayout, splitParts or moveSideCollection did
Outcome(op, g, result, split, calls, moves, bounds, side) ==
  [op |-> op, val |-> Undefined, old |-> Undefined,
   threw |-> (result = "TypeError"), raised |-> FALSE, invalidated |-> FALSE,
   coll |-> g, result |-> result,
   maincoll |-> split.maincoll, sidecoll |-> split.sidecoll,
   calls |-> calls, moves |-> moves, bounds |-> bounds, side |-> side]

NoSplit == [maincoll |-> {}, sidecoll |-> {}]
NoRect == Rect(0, 0, 0, 0)
NoSide == [moved |-> FALSE, sidebounds |-> NoRect]

\* doLayout(coll): partsDiagram is the diagram of the Parts of coll,
\* mainResult and sideResult are what computePartsBounds returns for the main
\* and for the side collection once the layouts have positioned them
doLayout(g, partsDiagram, mainResult, sideResult) ==
  LET coll2 == collectParts(g)
      diagram == IF al.diagram # Null THEN al.diagram ELSE partsDiagram
      split == splitParts(g, al._filter)
      arr == al._arrangingLayout
      sp == splitIntoSubNetworks(makeNetwork(split.maincoll))
      arranged == arr # Null /\ Len(sp.subnets) > 1
      singles == SeqOf(sp.mainnet.vertexes)
      subcolls == [i \in 1 .. Len(sp.subnets) |-> findAllParts(sp.subnets[i])]
                    \o [i \in 1 .. Len(singles) |-> {Node(singles[i])}]
      primary == IF arranged
                 THEN [i \in 1 .. Len(subcolls) |->
                         LayoutCall("primaryLayout", al._primaryLayout,
                                    subcolls[i], << >>)]
                 ELSE << LayoutCall("primaryLayout", al._primaryLayout,
                                    split.maincoll, << >>) >>
      arranging == IF arranged
                   THEN << LayoutCall("arrangingLayout", arr, {}, subcolls) >>
                   ELSE << >>
      \* moveSubgraph returns at once when this.diagram is null
      moves == IF al.diagram = Null THEN << >>
               ELSE IF arranged THEN subcolls ELSE << split.maincoll >>
      bounds == RealOrZero(mainResult)
      sided == split.sidecoll # {}
      sidecall == IF sided
                  THEN << LayoutCall("sideLayout", al._sideLayout,
                                     split.sidecoll, << >>) >>
                  ELSE << >>
      side == IF sided THEN moveSideCollection(bounds, RealOrZero(sideResult))
              ELSE NoSide
  IN /\ al_last' =
          IF coll2 = {}
          THEN Outcome("doLayout", g, "empty", NoSplit, << >>, << >>, NoRect, NoSide)
          ELSE IF diagram = Null
          THEN Outcome("doLayout", g, "no diagram", NoSplit, << >>, << >>, NoRect, NoSide)
          ELSE IF arr # Null /\ ~IsLayout(arr)
          THEN Outcome("doLayout", g, "TypeError", split, << >>, << >>, NoRect, NoSide)
          ELSE Outcome("doLayout", g, "done", split,
                       primary \o arranging \o sidecall, moves, bounds, side)
     /\ UNCHANGED al

\* what computePartsBounds may return for the main and the side collection:
\* two Rects, or two that are not real
BoundsResults ==
  {<<NotReal, NotReal>>,
   <<Bounds(TRUE, Rect(10, 30, 40, 20)), Bounds(TRUE, Rect(0, 0, 20, 10))>>}

\* the Rects given to moveSideCollection
RectInputs ==
  {Rect(p[1], p[2], 10 * w, 10 * h) :
     p \in {<<0, 0>>, <<10, 30>>}, w \in 0 .. MaxSize, h \in 0 .. MaxSize}

\* doLayout, splitParts and moveSideCollection leave the fields of the layout
\* alone: one of them straight after another starts from the same fields, so
\* each is taken after a call that is not one of them
Settled == al_last.op \notin {"doLayout", "splitParts", "moveSideCollection"}

\* ------------------------------------------------- DimensioningLink claims

\* the values the documentation of direction allows
AllowedDirections == {Num(0), Num(90), Num(180), Num(270), NaN}

\* C1: extension is never negative, and assigning a negative number to
\* extension throws and leaves extension as it was.
C1_ExtensionNonNegative ==
  /\ ~LessThan(dl._extension, Num(0))
  /\ (dl_last.op = "extension" /\ LessThan(dl_last.val, Num(0)))
       => (dl_last.threw /\ dl._extension = dl_last.old)

\* C2: direction is always one of 0, 90, 180, 270 or NaN; assigning any other
\* value throws, leaves direction as it was, raises no changed event and does
\* not invalidate the route.
C2_DirectionAllowed ==
  /\ dl._direction \in AllowedDirections
  /\ (dl_last.op = "direction" /\ dl_last.val \notin AllowedDirections)
       => /\ dl_last.threw
          /\ dl._direction = dl_last.old
          /\ ~dl_last.raised
          /\ ~dl_last.invalidated

NonNegativeNumber(val) == val.t = "number" /\ val.v >= 0

\* the field an inset or gap setter call is about
FieldOf(op) == IF op = "inset" THEN dl._inset ELSE dl._gap

\* C3: inset and gap are non-negative numbers; assigning a negative number or
\* a non-number throws, leaves the value as it was, raises no changed event
\* and does not invalidate the route; assigning the current value does
\* nothing and raises no event.
C3_InsetGapNonNegative ==
  /\ NonNegativeNumber(dl._inset)
  /\ NonNegativeNumber(dl._gap)
  /\ dl_last.op \in {"inset", "gap"} =>
       /\ (~TypeofNumber(dl_last.val) \/ LessThan(dl_last.val, Num(0)))
            => /\ dl_last.threw
               /\ FieldOf(dl_last.op) = dl_last.old
               /\ ~dl_last.raised
               /\ ~dl_last.invalidated
       /\ dl_last.val = dl_last.old
            => /\ ~dl_last.threw
               /\ FieldOf(dl_last.op) = dl_last.old
               /\ ~dl_last.raised
               /\ ~dl_last.invalidated

\* computePoints has just computed a route for the direction ang
RouteComputed(ang) ==
  /\ dl_last.op = "computePoints"
  /\ dl_last.result
  /\ dl._direction = Num(ang)

\* the 3rd and 4th route points, the dimension line, are above the measured
\* points for direction 0 and below them for direction 180
DimensionLineOutside ==
  LET fy == Num(dl_last.frompoint.y)
      ty == Num(dl_last.topoint.y)
      pts == dl_last.points
  IN /\ RouteComputed(0) =>
          /\ Len(pts) = 6
          /\ LessEq(pts[3].y, JMin(fy, ty))
          /\ LessEq(pts[4].y, JMin(fy, ty))
     /\ RouteComputed(180) =>
          /\ Len(pts) = 6
          /\ LessEq(JMax(fy, ty), pts[3].y)
          /\ LessEq(JMax(fy, ty), pts[4].y)

C5_SpacingDefault100 ==
  (sl_last.op = "new" \/ (sl_last.op = "spacing" /\ sl_last.threw))
    => sl._spacing = Num(100)

\* doLayout has found a root and is walking from it
Walking == sl_run.pc = "walk"

\* doLayout has returned after updateParts, with the network reset to null
Finished == Idle /\ sl_run.updated /\ sl_run.network.null

\* the walk has come back to a vertex it already placed
WalkRevisits == Walking /\ sl_run.vert \in sl_run.placed

\* C11: doLayout terminates on every finite network, networks in which every
\* vertex lies on a cycle included: once the root is found, the walk along
\* first destination edges ends, updateParts is called and the network is
\* reset to null.
C11_DoLayoutTerminates == Walking ~> Finished

\* the walk ends unless it comes back to a vertex it already placed
DoLayoutTerminatesUnlessRevisit == Walking ~> (Finished \/ WalkRevisits)

\* a walk that has come back to a placed vertex never ends
WalkRevisitsForever == [][WalkRevisits => WalkRevisits']_vars

\* -------------------------------------------------- ArrangingLayout claims

\* splitParts has just split a collection, directly or within doLayout
HasSplit ==
  \/ al_last.op = "splitParts"
  \/ al_last.op = "doLayout" /\ al_last.result = "done"

\* a Part with a Link connected to it: a Link, or a Node with linksConnected
HasLinks(g, p) ==
  \/ p.kind = "Link"
  \/ p.kind = "Node" /\ linksConnected(g, p.id) # {}

\* C6: with a null filter, splitParts puts every Node that has connected
\* Links and every Link of the collection into the main collection, and the
\* side collection has only Parts without connected Links.
C6_NullFilterSplit ==
  (HasSplit /\ al._filter = Null) =>
    LET g == al_last.coll
        coll == collectParts(g)
    IN /\ \A p \in coll :
            (p.kind = "Node" /\ HasLinks(g, p)) => p \in al_last.maincoll
       /\ \A p \in coll : p.kind = "Link" => p \in al_last.maincoll
       /\ \A p \in al_last.sidecoll : ~HasLinks(g, p)

\* the Nodes of the main graph that a path of Links of the main graph joins
\* to Node i (a Link from a Node to itself joins nothing)
JoinedTo(maincoll, i) ==
  Reachable({i}, {p \in maincoll : p.kind = "Link" /\ p.from # p.to})

MainNodes(maincoll) == {p.id : p \in {q \in maincoll : q.kind = "Node"}}

\* the subnetworks of the main graph: the sets of Nodes joined to each other
Subnetworks(maincoll) ==
  {JoinedTo(maincoll, i) : i \in MainNodes(maincoll)}

\* the singleton nodes of the main graph
Singletons(maincoll) ==
  {i \in MainNodes(maincoll) : JoinedTo(maincoll, i) = {i}}

\* the calls doLayout made on the layout of that name
CallsOf(name) ==
  {i \in 1 .. Len(al_last.calls) : al_last.calls[i].name = name}

\* doLayout ran to its end with a Layout as arrangingLayout
LaidOutArranging ==
  /\ al_last.op = "doLayout"
  /\ al_last.result = "done"
  /\ IsLayout(al._arrangingLayout)

\* C7: with the filter part => true and a main graph of at least two nodes,
\* doLayout calls arrangingLayout.doLayout with one stand-in group for each
\* singleton node and one for each connected subnetwork.
C7_SingletonsArranged ==
  (/\ LaidOutArranging
   /\ al._filter = Fn(TRUE)
   /\ Cardinality(MainNodes(al_last.maincoll)) >= 2
   /\ Singletons(al_last.maincoll) # {}) =>
    /\ Cardinality(CallsOf("arrangingLayout")) = 1
    /\ \A i \in CallsOf("arrangingLayout") :
         LET groups == al_last.calls[i].groups
         IN /\ Len(groups) = Cardinality(Subnetworks(al_last.maincoll))
            /\ \A v \in Singletons(al_last.maincoll) :
                 \E k \in 1 .. Len(groups) : groups[k] = {Node(v)}

\* C8: when arrangingLayout is null or the main graph is one connected
\* subnetwork, doLayout calls primaryLayout.doLayout once, on the whole main
\* collection, and never arrangingLayout.doLayout; when arrangingLayout is a
\* Layout and the main graph has several subnetworks, it calls
\* primaryLayout.doLayout once for each subnetwork and then
\* arrangingLayout.doLayout once.
C8_PrimaryAndArrangingCalls ==
  (al_last.op = "doLayout" /\ al_last.result = "done") =>
    LET n == Cardinality(Subnetworks(al_last.maincoll))
        prim == CallsOf("primaryLayout")
        arrg == CallsOf("arrangingLayout")
    IN /\ (al._arrangingLayout = Null \/ n = 1) =>
            /\ Cardinality(prim) = 1
            /\ \A i \in prim : al_last.calls[i].parts = al_last.maincoll
            /\ arrg = {}
       /\ (IsLayout(al._arrangingLayout) /\ n > 1) =>
            /\ Cardinality(prim) = n
            /\ \A c \in Subnetworks(al_last.maincoll) : \E i \in prim :
                 MainNodes(al_last.calls[i].parts) = c
            /\ Cardinality(arrg) = 1
            /\ \A i \in prim : \A j \in arrg : i < j

\* the field a primaryLayout or sideLayout setter call is about
LayoutFieldOf(op) ==
  IF op = "primaryLayout" THEN al._primaryLayout ELSE al._sideLayout

ConfiguredSides(spot) == IF spot.t = "spot" THEN {spot.v} ELSE spot.v

\* after lies beyond the named side of main, at the distance of the spacing
BeyondSide(name, main, after, spacing) ==
  CASE name = "Bottom" -> after.y = main.y + main.height + spacing.v[2]
    [] name = "Top" -> after.y + after.height = main.y - spacing.v[2]
    [] name = "Right" -> after.x = main.x + main.width + spacing.v[1]
    [] name = "Left" -> after.x + after.width = main.x - spacing.v[1]

\* after is centered along the named side of main
Centered(name, main, after) ==
  IF name \in {"Top", "Bottom"}
  THEN 2 * after.x + after.width = 2 * main.x + main.width
  ELSE 2 * after.y + after.height = 2 * main.y + main.height

\* after starts where main starts along the named side
Aligned(name, main, after) ==
  IF name \in {"Top", "Bottom"} THEN after.x = main.x ELSE after.y = main.y

\* the two Rects have no inner point in common
Apart(a, b) ==
  \/ a.x >= b.x + b.width
  \/ a.x + a.width <= b.x
  \/ a.y >= b.y + b.height
  \/ a.y + a.height <= b.y

\* the side bounds are where the claim C10 puts them
SidePlaced ==
  LET main == al_last.bounds
      after == al_last.side.sidebounds
  IN /\ \E name \in ConfiguredSides(al._side) :
          /\ BeyondSide(name, main, after, al._spacing)
          /\ IF al._side.t = "spot" THEN Centered(name, main, after)
                                    ELSE Aligned(name, main, after)
     /\ (al._spacing.v[1] >= 0 /\ al._spacing.v[2] >= 0) => Apart(after, main)

\* C10 as stated: moveSideCollection moves the side collection beyond the
\* configured side of the main bounds, at the distance of the spacing,
\* centered for Spot.Bottom, Top, Right, Left and aligned otherwise, so that
\* with a spacing >= 0 the two do not overlap.
C10_SideMovedAlways ==
  al_last.op = "moveSideCollection" => (al_last.side.moved /\ SidePlaced)

\* C10 as amended: the same, when the layout belongs to a diagram; without a
\* diagram moveSideCollection moves nothing.
C10_SideMovedInDiagram ==
  al_last.op = "moveSideCollection" =>
    IF al.diagram # Null THEN al_last.side.moved /\ SidePlaced
    ELSE ~al_last.side.moved

\* C10 witness: the side collection was moved above the main bounds for a
\* Spot of several sides, from a place where it overlapped them
C10_Witness ==
  /\ al_last.op = "moveSideCollection"
  /\ al_last.side.moved
  /\ al._side = Sides({"Top", "Left"})
  /\ al._spacing = Size(10, 30)
  /\ al_last.bounds.width > 0
  /\ al_last.side.sidebounds.height > 0
  /\ al_last.side.sidebounds.y + al_last.side.sidebounds.height
       = al_last.bounds.y - 30

Init == DLInit /\ SLInit /\ ALInit

SpecDL == Init /\ [][DLNext]_vars
SpecSL == Init /\ [][SLNext]_vars

\* doLayout runs on: a started loop takes its next turn, and returns when the
\* loop condition fails
SpecSLRun ==
  /\ Init
  /\ [][SLRunNext]_vars
  /\ WF_vars(SLDoLayoutWalk)
  /\ WF_vars(SLDoLayoutEnd)

ALSetFilter == (\E val \in FilterValues : AL_set_filter(val)) /\ UNCHANGED <<dlvars, slvars>>
ALSetSide == (\E val \in SideValues : AL_set_side(val)) /\ UNCHANGED <<dlvars, slvars>>
ALSetSpacing == (\E val \in SpacingValues : AL_set_spacing(val)) /\ UNCHANGED <<dlvars, slvars>>
ALSetPrimaryLayout == (\E val \in LayoutValues : AL_set_primaryLayout(val)) /\ UNCHANGED <<dlvars, slvars>>
ALSetArrangingLayout == (\E val \in LayoutValues : AL_set_arrangingLayout(val)) /\ UNCHANGED <<dlvars, slvars>>
ALSetSideLayout == (\E val \in LayoutValues : AL_set_sideLayout(val)) /\ UNCHANGED <<dlvars, slvars>>
ALSetDiagram == (\E val \in {Null, TheDiagram} : AL_set_diagram(val)) /\ UNCHANGED <<dlvars, slvars>>

ALSplitParts ==
  /\ Settled
  /\ \E g \in Graphs :
       al_last' = Outcome("splitParts", g, "done", splitParts(g, al._filter),
                          << >>, << >>, NoRect, NoSide)
  /\ UNCHANGED <<al, dlvars, slvars>>

ALDoLayout ==
  /\ Settled
  /\ \E g \in Graphs \cup {EmptyGraph} :
       \/ \E r \in BoundsResults : doLayout(g, TheDiagram, r[1], r[2])
       \/ doLayout(g, Null, NotReal, NotReal)
  /\ UNCHANGED <<dlvars, slvars>>

ALMoveSideCollection ==
  /\ Settled
  /\ \E mainbounds \in RectInputs : \E sidebounds \in RectInputs :
       al_last' = Outcome("moveSideCollection", EmptyGraph, "done", NoSplit,
                          << >>, << >>, mainbounds,
                          moveSideCollection(mainbounds, sidebounds))
  /\ UNCHANGED <<al, dlvars, slvars>>

\* splitting and laying out collections of Parts
ALGraphNext ==
  \/ ALSetFilter
  \/ ALSetArrangingLayout
  \/ ALSetDiagram
  \/ ALSplitParts
  \/ ALDoLayout

\* placing the side collection
ALSideNext ==
  \/ ALSetSide
  \/ ALSetSpacing
  \/ ALSetDiagram
  \/ ALMoveSideCollection

SpecALGraph == Init /\ [][ALGraphNext]_vars
SpecALSide == Init /\ [][ALSideNext]_vars

\* the layout properties of an ArrangingLayout
ALLayoutsNext ==
  \/ ALSetPrimaryLayout
  \/ ALSetArrangingLayout
  \/ ALSetSideLayout
  \/ ALSetFilter

SpecALLayouts == Init /\ [][ALLayoutsNext]_vars

Next == DLNext \/ SLNext \/ SLRunNext \/ ALLayoutsNext \/ ALGraphNext \/ ALSideNext
Spec == Init /\ [][Next]_vars
====
